---- MODULE Spec2Model ----
(***************************************************************************)
(* TTS/STT HTTP API (app/main.py, app/tts_module.py, app/stt_module.py).   *)
(*                                                                         *)
(* One server process: the two model handles are bound while the modules   *)
(* are imported, the startup hook runs, and then requests are served by       *)
(* coroutines of a single asyncio event loop.  A coroutine keeps the       *)
(* loop's thread from its first statement to its next real suspension      *)
(* point; `loop` names the request whose coroutine holds the thread.       *)
(***************************************************************************)
EXTENDS Integers, Sequences, FiniteSets

\* ---------------------------------------------------------------- bounds
NumReq == 2

Requests == 1..NumReq
NoReq == 0

\* ------------------------------------------------------- python values
PyNone == <<"NoneType">>
PyStr(s) == <<"str", s>>

\* `not v` for None and str values
Truthy(v) == v # PyNone /\ v # PyStr("")

\* dict.get(key): a dict is a set of <<key, value>> pairs, None when absent
DictGet(d, k) ==
    IF \E kv \in d : kv[1] = k
    THEN (CHOOSE kv \in d : kv[1] = k)[2]
    ELSE PyNone

\* ------------------------------------------------------- request inputs
\* JSON bodies of POST /tts/: {}, {"text": ""}, {"text": "hi"}
TtsBodies == { {}, {<<"text", PyStr("")>>}, {<<"text", PyStr("hi")>>} }

\* multipart forms of POST /stt/: no file field, a file part with an empty
\* filename, a file part named a.wav
SttBodies == { {}, {<<"audio_file", PyStr("")>>}, {<<"audio_file", PyStr("a.wav")>>} }

NoBody == {<<"none", PyNone>>}

\* what an opaque model call, the stream copy or mkstemp can raise
Errors == {"boom"}

\* rates a model can report; 0 is the value the code treats as "not found"
Rates == {0, 16000, 44100}

\* tts_module.py line 55
default_sr == 22050

\* the attributes of a loaded synthesis model that the rate probe reads
Metas == [has_osr : BOOLEAN, osr : Rates, has_cfg : BOOLEAN, cfg : Rates]
NoMeta == [has_osr |-> FALSE, osr |-> 0, has_cfg |-> FALSE, cfg |-> 0]
ValidMeta(m) == (~m.has_osr => m.osr = 0) /\ (~m.has_cfg => m.cfg = 0)

\* names tempfile.mkstemp can hand out
Paths == 1..NumReq
NoPath == 0

VARIABLES
    boot,        \* "import_tts", "import_stt", "startup", "serving"
    tts_model,   \* "None" or "Loaded"  (tts_module.tts_model)
    stt_model,   \* "None" or "Loaded"  (stt_module.stt_model)
    tts_load,    \* outcome of the synthesis load: "pending", "ok", "failed"
    stt_load,    \* outcome of the recognition load
    tts_meta,    \* rate attributes of the loaded synthesis model
    req,         \* r -> [kind, body]
    pc,          \* r -> position of the request's coroutine
    loop,        \* request whose coroutine holds the event loop's thread
    status,      \* r -> HTTP status of the response (0: none yet)
    detail,      \* r -> detail message of an error response
    calls,       \* r -> number of model invocations made for r
    wav_rate,    \* r -> sample rate the WAV of r was written with
    tmp_path,    \* r -> path mkstemp returned to r
    owner,       \* path -> request that created the file there (0: no file)
    issued,      \* names mkstemp has handed out
    closed,      \* r -> the upload's stream is closed
    exc,         \* r -> text of the exception caught around the model call
                 \*      or the copy ("" when none was raised)
    entered,     \* r -> transcribe_audio_file was entered
    foreign,     \* some request touched a file it did not create
    after_500    \* r -> an earlier /tts/ request had failed with 500 when r's
                 \*      handler began

vars == <<boot, tts_model, stt_model, tts_load, stt_load, tts_meta, req, pc,
          loop, status, detail, calls, wav_rate, tmp_path, owner, issued, closed,
          exc, entered, foreign, after_500>>

handles == <<tts_model, stt_model>>
bootvars == <<boot, tts_model, stt_model, tts_load, stt_load, tts_meta>>
filevars == <<tmp_path, owner, issued, foreign>>

\* paths of the files that exist in the temp directory
fs == {p \in Paths : owner[p] # NoReq}

\* ------------------------------------------------------------------ Init
\* tts_module.py line 21 and stt_module.py line 24 bind both handles to None
\* before the loads are tried.
Init ==
    /\ boot = "import_tts"
    /\ tts_model = "None"
    /\ stt_model = "None"
    /\ tts_load = "pending"
    /\ stt_load = "pending"
    /\ tts_meta = NoMeta
    /\ req = [r \in Requests |-> [kind |-> "none", body |-> NoBody]]
    /\ pc = [r \in Requests |-> "idle"]
    /\ loop = NoReq
    /\ status = [r \in Requests |-> 0]
    /\ detail = [r \in Requests |-> <<>>]
    /\ calls = [r \in Requests |-> 0]
    /\ wav_rate = [r \in Requests |-> 0]
    /\ tmp_path = [r \in Requests |-> NoPath]
    /\ owner = [p \in Paths |-> NoReq]
    /\ issued = {}
    /\ closed = [r \in Requests |-> FALSE]
    /\ exc = [r \in Requests |-> ""]
    /\ entered = [r \in Requests |-> FALSE]
    /\ foreign = FALSE
    /\ after_500 = [r \in Requests |-> FALSE]

reqvars == <<req, pc, loop, status, detail, calls, wav_rate, closed, exc,
             entered, after_500>>

\* a failed load that leaves a half-built object bound to the handle
TtsHandleAfterLoadStale(ok) == "Loaded"

\* --------------------------------------------------------------- startup
\* tts_module.py lines 21-30: the load either binds the handle or raises, and
\* the except clause leaves the handle None.
TtsHandleAfterLoad(ok) == IF ok THEN "Loaded" ELSE "None"

LoadTts ==
    /\ boot = "import_tts"
    /\ \E ok \in BOOLEAN, m \in Metas :
         /\ ValidMeta(m)
         /\ ~ok => m = NoMeta
         /\ tts_model' = TtsHandleAfterLoad(ok)
         /\ tts_load' = IF ok THEN "ok" ELSE "failed"
         /\ tts_meta' = m
    /\ boot' = "import_stt"
    /\ UNCHANGED <<stt_model, stt_load>>
    /\ UNCHANGED reqvars
    /\ UNCHANGED filevars

\* stt_module.py lines 24-34
SttHandleAfterLoad(ok) == IF ok THEN "Loaded" ELSE "None"

LoadStt ==
    /\ boot = "import_stt"
    /\ \E ok \in BOOLEAN :
         /\ stt_model' = SttHandleAfterLoad(ok)
         /\ stt_load' = IF ok THEN "ok" ELSE "failed"
    /\ boot' = "startup"
    /\ UNCHANGED <<tts_model, tts_load, tts_meta>>
    /\ UNCHANGED reqvars
    /\ UNCHANGED filevars

\* main.py lines 23-30: the hook only logs
startup_event ==
    /\ boot = "startup"
    /\ boot' = "serving"
    /\ UNCHANGED <<tts_model, stt_model, tts_load, stt_load, tts_meta>>
    /\ UNCHANGED reqvars
    /\ UNCHANGED filevars

\* --------------------------------------------------------------- arrival
\* A client sends a request to the serving process; requests are numbered in
\* the order they arrive.
Arrive(r) ==
    /\ boot = "serving"
    /\ pc[r] = "idle"
    /\ \A q \in Requests : q < r => pc[q] # "idle"
    /\ \E k \in {"tts", "stt"} :
         \E b \in (IF k = "tts" THEN TtsBodies ELSE SttBodies) :
            req' = [req EXCEPT ![r] = [kind |-> k, body |-> b]]
    /\ pc' = [pc EXCEPT ![r] = "pending"]
    /\ UNCHANGED <<loop, status, detail, calls, wav_rate, closed, exc, entered,
                   after_500>>
    /\ UNCHANGED bootvars
    /\ UNCHANGED filevars

\* The response of r is sent: its coroutine ends and gives the thread back.
Respond(r, code, msg) ==
    /\ status' = [status EXCEPT ![r] = code]
    /\ detail' = [detail EXCEPT ![r] = msg]
    /\ pc' = [pc EXCEPT ![r] = "done"]
    /\ loop' = NoReq

\* a gate that forgets to validate the text
TtsGateNoTextCheck(handle, text) ==
    IF handle = "None" THEN 503 ELSE 0

\* ------------------------------------------------------------------ /tts/
\* main.py lines 42-49: 0 means the request passes on to synthesis
TtsGate(handle, text) ==
    IF handle = "None" THEN 503
    ELSE IF ~Truthy(text) THEN 400
    ELSE 0

TtsGateDetail(code) ==
    IF code = 503
    THEN <<"TTS service is unavailable due to model loading issues.">>
    ELSE <<"'text' field is required in the JSON payload.">>

\* main.py lines 36-53 and tts_module.py lines 32-44: the handler up to the
\* moment the model's tts() is running, called directly in the coroutine
text_to_speech(r) ==
    /\ boot = "serving"
    /\ pc[r] = "pending"
    /\ req[r].kind = "tts"
    /\ loop = NoReq
    /\ LET text == DictGet(req[r].body, "text")
           gate == TtsGate(tts_model, text)
       IN  IF gate # 0
           THEN /\ Respond(r, gate, TtsGateDetail(gate))
                /\ UNCHANGED calls
           ELSE /\ pc' = [pc EXCEPT ![r] = "synthesizing"]
                /\ loop' = r
                /\ calls' = [calls EXCEPT ![r] = @ + 1]
                /\ UNCHANGED <<status, detail>>
    /\ after_500' = [after_500 EXCEPT ![r] =
                        \E q \in Requests : req[q].kind = "tts" /\ status[q] = 500]
    /\ UNCHANGED <<req, wav_rate, closed, exc, entered>>
    /\ UNCHANGED bootvars
    /\ UNCHANGED filevars

\* a probe that never reads the audio configuration
SampleRateNoConfig(m) ==
    LET sample_rate == IF m.has_osr THEN m.osr ELSE 0
    IN  IF sample_rate = 0 THEN default_sr ELSE sample_rate

\* tts_module.py lines 46-57
SampleRate(m) ==
    LET sample_rate == IF m.has_osr THEN m.osr
                       ELSE IF m.has_cfg THEN m.cfg
                       ELSE 0
    IN  IF sample_rate = 0 THEN default_sr ELSE sample_rate

\* a wrapper that drops the original exception's text
SynthFailureNoCause(e) == <<"Failed to synthesize speech">>

\* tts_module.py lines 66-68: the RuntimeError's message
SynthFailure(e) == <<"Failed to synthesize speech: ", e>>

\* main.py lines 56-58
TtsErrorDetail(m) == <<"TTS synthesis failed: ">> \o m

\* tts_module.py lines 44-68 and main.py lines 53-61: the model call returns a
\* waveform or raises, the WAV is written, the response is sent
synthesize_speech_to_bytes(r) ==
    /\ pc[r] = "synthesizing"
    /\ loop = r
    /\ \E out \in {"ok"} \cup Errors :
         IF out = "ok"
         THEN /\ wav_rate' = [wav_rate EXCEPT ![r] = SampleRate(tts_meta)]
              /\ Respond(r, 200, <<>>)
              /\ UNCHANGED exc
         ELSE /\ Respond(r, 500, TtsErrorDetail(SynthFailure(out)))
              /\ exc' = [exc EXCEPT ![r] = out]
              /\ UNCHANGED wav_rate
    /\ UNCHANGED <<req, calls, closed, entered, after_500>>
    /\ UNCHANGED bootvars
    /\ UNCHANGED filevars

\* ------------------------------------------------------------------ /stt/
\* main.py line 67: audio_file is a required File(...) parameter; a form
\* without it is answered 422 by the framework and the handler is not called
RequestValidation(r) ==
    /\ boot = "serving"
    /\ pc[r] = "pending"
    /\ req[r].kind = "stt"
    /\ DictGet(req[r].body, "audio_file") = PyNone
    /\ loop = NoReq
    /\ Respond(r, 422, <<"field required">>)
    /\ UNCHANGED <<req, calls, wav_rate, closed, exc, entered, after_500>>
    /\ UNCHANGED bootvars
    /\ UNCHANGED filevars

\* a gate that validates the filename before it looks at the handle
SttGateFilenameFirst(handle, filename) ==
    IF ~Truthy(filename) THEN 400
    ELSE IF handle = "None" THEN 503
    ELSE 0

\* a gate that forgets to validate the filename
SttGateNoFilenameCheck(handle, filename) ==
    IF handle = "None" THEN 503 ELSE 0

\* main.py lines 73-79: 0 means the request passes on to transcription
SttGate(handle, filename) ==
    IF handle = "None" THEN 503
    ELSE IF ~Truthy(filename) THEN 400
    ELSE 0

SttGateDetail(code) ==
    IF code = 503
    THEN <<"STT service is unavailable due to model loading issues.">>
    ELSE <<"No audio file provided.">>

\* one constant path for every upload instead of mkstemp
FixedTmpName(existing, given) == {1}

\* stt_module.py line 49: mkstemp creates a file that did not exist, under a
\* random 8-character name; a name is taken never to be drawn twice
MkstempNames(existing, given) == Paths \ (existing \cup given)

\* main.py lines 97-99
SttUnexpectedDetail(e) == <<"An unexpected error occurred during STT: ", e>>

\* main.py lines 67-91 and stt_module.py lines 37-50: the handler up to the
\* creation of the transient file.  mkstemp stands before the try block, so
\* what it raises leaves transcribe_audio_file at once.
speech_to_text(r) ==
    /\ boot = "serving"
    /\ pc[r] = "pending"
    /\ req[r].kind = "stt"
    /\ DictGet(req[r].body, "audio_file") # PyNone
    /\ loop = NoReq
    /\ LET filename == DictGet(req[r].body, "audio_file")
           gate == SttGate(stt_model, filename)
       IN  IF gate # 0
           THEN /\ Respond(r, gate, SttGateDetail(gate))
                /\ UNCHANGED <<entered, tmp_path, owner, issued, foreign>>
           ELSE /\ entered' = [entered EXCEPT ![r] = TRUE]
                /\ \/ \E e \in Errors :
                        /\ Respond(r, 500, SttUnexpectedDetail(e))
                        /\ UNCHANGED <<tmp_path, owner, issued, foreign>>
                   \/ \E p \in MkstempNames(fs, issued) :
                        /\ tmp_path' = [tmp_path EXCEPT ![r] = p]
                        /\ foreign' = (foreign \/ owner[p] # NoReq)
                        /\ owner' = IF owner[p] = NoReq
                                    THEN [owner EXCEPT ![p] = r]
                                    ELSE owner
                        /\ issued' = issued \cup {p}
                        /\ pc' = [pc EXCEPT ![r] = "copying"]
                        /\ loop' = r
                        /\ UNCHANGED <<status, detail>>
    /\ UNCHANGED <<req, calls, wav_rate, closed, exc, after_500>>
    /\ UNCHANGED bootvars

\* stt_module.py lines 53-60: the upload is copied into the transient file;
\* then the model's transcribe() is running, called directly in the coroutine
CopyUpload(r) ==
    /\ pc[r] = "copying"
    /\ loop = r
    /\ foreign' = (foreign \/ owner[tmp_path[r]] # r)
    /\ \E out \in {"ok"} \cup Errors :
         IF out = "ok"
         THEN /\ pc' = [pc EXCEPT ![r] = "transcribing"]
              /\ calls' = [calls EXCEPT ![r] = @ + 1]
              /\ UNCHANGED exc
         ELSE /\ pc' = [pc EXCEPT ![r] = "cleanup"]
              /\ exc' = [exc EXCEPT ![r] = out]
              /\ UNCHANGED calls
    /\ UNCHANGED <<req, loop, status, detail, wav_rate, closed, entered, after_500>>
    /\ UNCHANGED <<tmp_path, owner, issued>>
    /\ UNCHANGED bootvars

\* stt_module.py lines 60-66: transcribe() reads the file and returns a result
\* with a text field, a result without one (KeyError), or raises
Transcribe(r) ==
    /\ pc[r] = "transcribing"
    /\ loop = r
    /\ foreign' = (foreign \/ owner[tmp_path[r]] # r)
    /\ \E out \in {"text", "notext"} \cup Errors :
         exc' = [exc EXCEPT ![r] = IF out = "text" THEN ""
                                   ELSE IF out = "notext" THEN "'text'"
                                   ELSE out]
    /\ pc' = [pc EXCEPT ![r] = "cleanup"]
    /\ UNCHANGED <<req, loop, status, detail, calls, wav_rate, closed, entered,
                   after_500>>
    /\ UNCHANGED <<tmp_path, owner, issued>>
    /\ UNCHANGED bootvars

\* the removal placed at the end of the try block: skipped when it raised
CleanupOnlyOnSuccess(e) == e = ""

\* stt_module.py line 67: the removal stands in a finally clause, it runs
\* whatever the try block raised (e is "" when it raised nothing)
CleanupRuns(e) == TRUE

\* stt_module.py lines 67-73: the file is removed if it exists, then
\* audio_file.close() is awaited; the close either finishes at once or is
\* handed to a worker thread, which suspends the coroutine
Cleanup(r) ==
    /\ pc[r] = "cleanup"
    /\ loop = r
    /\ LET p == tmp_path[r]
       IN  IF CleanupRuns(exc[r]) /\ p \in fs
           THEN /\ owner' = [owner EXCEPT ![p] = NoReq]
                /\ foreign' = (foreign \/ owner[p] # r)
           ELSE UNCHANGED <<owner, foreign>>
    /\ pc' = [pc EXCEPT ![r] = "closing"]
    /\ \E suspends \in BOOLEAN : loop' = IF suspends THEN NoReq ELSE r
    /\ UNCHANGED <<req, status, detail, calls, wav_rate, closed, exc, entered,
                   after_500>>
    /\ UNCHANGED <<tmp_path, issued>>
    /\ UNCHANGED bootvars

\* stt_module.py line 66: the RuntimeError's message
TranscribeFailure(e) == <<"Failed to transcribe audio: ", e>>

\* main.py lines 94-96
SttErrorDetail(m) == <<"STT transcription failed: ">> \o m

\* stt_module.py lines 73-76 and main.py lines 91-96: the stream is closed,
\* the coroutine resumes, returns the text or raises, the response is sent
CloseUpload(r) ==
    /\ pc[r] = "closing"
    /\ loop \in {NoReq, r}
    /\ closed' = [closed EXCEPT ![r] = TRUE]
    /\ IF exc[r] = ""
       THEN Respond(r, 200, <<>>)
       ELSE Respond(r, 500, SttErrorDetail(TranscribeFailure(exc[r])))
    /\ UNCHANGED <<req, calls, wav_rate, exc, entered, after_500>>
    /\ UNCHANGED bootvars
    /\ UNCHANGED filevars

\* the steps the server takes for request r once it has arrived
Handle(r) ==
    \/ text_to_speech(r)
    \/ RequestValidation(r)
    \/ speech_to_text(r)

Next ==
    \/ LoadTts
    \/ LoadStt
    \/ startup_event
    \/ \E r \in Requests : Arrive(r)
    \/ \E r \in Requests : Handle(r)
    \/ \E r \in Requests : synthesize_speech_to_bytes(r)
    \/ \E r \in Requests : CopyUpload(r)
    \/ \E r \in Requests : Transcribe(r)
    \/ \E r \in Requests : Cleanup(r)
    \/ \E r \in Requests : CloseUpload(r)

Spec == Init /\ [][Next]_vars
\* ================================================================ claims
Done(r) == pc[r] = "done"
InFlight(r) == pc[r] \notin {"idle", "done"}
IsTts(r) == req[r].kind = "tts"
IsStt(r) == req[r].kind = "stt"
Text(r) == DictGet(req[r].body, "text")
Filename(r) == DictGet(req[r].body, "audio_file")
Contains(msg, e) == \E i \in 1..Len(msg) : msg[i] = e
InModelCall(r) == pc[r] \in {"synthesizing", "transcribing"}

\* C1 as stated: a /tts/ request whose body is {} or has an empty text is
\* answered 400 whether the synthesis handle is loaded or unset, and the
\* synthesis model is not invoked for it.
C1_EmptyTextAlways400 ==
    \A r \in Requests :
        (IsTts(r) /\ ~Truthy(Text(r)) /\ Done(r))
            => (status[r] = 400 /\ calls[r] = 0)

\* C1 amended: a /tts/ request whose body is {} or has an empty text never
\* invokes the synthesis model; it is answered 400 when the synthesis handle
\* is loaded and 503 when the handle is unset.
C1_EmptyTextRejected ==
    \A r \in Requests :
        (IsTts(r) /\ ~Truthy(Text(r)))
            => /\ calls[r] = 0
               /\ Done(r) => status[r] = (IF tts_model = "Loaded" THEN 400 ELSE 503)

C1_Witness ==
    \E r \in Requests :
        /\ IsTts(r) /\ Done(r) /\ Text(r) = PyStr("")
        /\ tts_model = "Loaded" /\ status[r] = 400

\* C2: while a handle is unset, every request that reaches the handler of its
\* endpoint is answered 503 and the model of that endpoint is never invoked.
C2_UnsetHandle503 ==
    \A r \in Requests :
        /\ (IsTts(r) /\ tts_model = "None")
              => (calls[r] = 0 /\ (Done(r) => status[r] = 503))
        /\ (IsStt(r) /\ Filename(r) # PyNone /\ stt_model = "None")
              => (calls[r] = 0 /\ ~entered[r] /\ (Done(r) => status[r] = 503))

C2_Witness ==
    \E r1, r2 \in Requests :
        /\ IsTts(r1) /\ Done(r1) /\ tts_model = "None" /\ status[r1] = 503
        /\ IsStt(r2) /\ Done(r2) /\ stt_model = "None" /\ status[r2] = 503
        /\ Filename(r2) = PyStr("")

\* C3: once the response of a /stt/ request that created a transient file has
\* been sent, that file does not exist, on success and on failure alike.
C3_TransientFileGone ==
    \A r \in Requests :
        (Done(r) /\ tmp_path[r] # NoPath) => tmp_path[r] \notin fs

C3_Witness ==
    \E r1, r2 \in Requests :
        /\ Done(r1) /\ tmp_path[r1] # NoPath /\ status[r1] = 200
        /\ Done(r2) /\ tmp_path[r2] # NoPath /\ status[r2] = 500
        /\ exc[r2] = "'text'"

\* C4: when the synthesis model raises, the request is answered 500 with a
\* message that contains the error's text, both handles stay as the loads left
\* them, and a /tts/ request with text handled afterwards still reaches the
\* model and is answered 200 or 500, never turned away.
C4_SynthesisFailureIsLocal ==
    \A r \in Requests :
        /\ (IsTts(r) /\ Done(r) /\ exc[r] # "")
              => /\ status[r] = 500
                 /\ Contains(detail[r], exc[r])
                 /\ tts_model = "Loaded"
                 /\ (stt_model = "Loaded") = (stt_load = "ok")
        /\ (IsTts(r) /\ after_500[r] /\ Truthy(Text(r)) /\ pc[r] # "pending")
              => /\ calls[r] = 1
                 /\ Done(r) => status[r] \in {200, 500}

C4_Witness ==
    \E r1, r2 \in Requests :
        /\ IsTts(r1) /\ Done(r1) /\ status[r1] = 500 /\ exc[r1] \in Errors
        /\ IsTts(r2) /\ after_500[r2] /\ Done(r2) /\ status[r2] = 200

\* C5 as stated: a /stt/ request with no file attached (no file field, or a
\* file part with an empty filename) is answered 400 and the recognition
\* model is not invoked for it.
C5_NoFileAlways400 ==
    \A r \in Requests :
        (IsStt(r) /\ ~Truthy(Filename(r)) /\ Done(r))
            => (status[r] = 400 /\ calls[r] = 0)

\* C5 amended: a /stt/ request with no file attached never invokes the
\* recognition model; with an empty filename it is answered 400 when the
\* recognition handle is loaded and 503 when it is unset, and without the
\* file field it is answered 422 before the handler is called.
C5_NoFileRejected ==
    \A r \in Requests :
        (IsStt(r) /\ ~Truthy(Filename(r)))
            => /\ calls[r] = 0
               /\ ~entered[r]
               /\ Done(r) =>
                    status[r] = (IF Filename(r) = PyNone THEN 422
                                 ELSE IF stt_model = "Loaded" THEN 400
                                 ELSE 503)

C5_Witness ==
    \E r \in Requests :
        /\ IsStt(r) /\ Done(r) /\ Filename(r) = PyStr("")
        /\ stt_model = "Loaded" /\ status[r] = 400

\* C6: whatever the two loads do, startup goes on to completion; a handle is
\* unset exactly when its own load failed; and an endpoint whose load
\* succeeded passes its valid requests on to its model whatever the other
\* load did.
C6_LoadFailureIsolated ==
    /\ boot # "serving" => ENABLED (LoadTts \/ LoadStt \/ startup_event)
    /\ tts_load # "pending" => ((tts_model = "None") = (tts_load = "failed"))
    /\ stt_load # "pending" => ((stt_model = "None") = (stt_load = "failed"))
    /\ \A r \in Requests :
          /\ (IsTts(r) /\ Truthy(Text(r)) /\ tts_load = "ok" /\ pc[r] # "pending")
                => (calls[r] = 1 /\ status[r] # 503)
          /\ (IsStt(r) /\ Truthy(Filename(r)) /\ stt_load = "ok" /\ pc[r] # "pending")
                => (entered[r] /\ status[r] # 503)

C6_Witness ==
    /\ boot = "serving" /\ tts_load = "failed" /\ stt_load = "ok"
    /\ tts_model = "None" /\ stt_model = "Loaded"
    /\ \E r \in Requests : IsStt(r) /\ Done(r) /\ status[r] = 200 /\ calls[r] = 1

\* C7: while the model call of one request is in progress the server can
\* still take up another request that has arrived (for one, answer a /tts/
\* request with an empty text with 400).
C7_ModelCallOffLoop ==
    \A r1, r2 \in Requests :
        (r1 # r2 /\ InModelCall(r1) /\ pc[r2] = "pending") => ENABLED Handle(r2)

\* C8: once transcribe_audio_file has been entered for an upload, the
\* upload's stream is closed by the time the operation has returned or raised.
C8_StreamClosedOnEveryExit ==
    \A r \in Requests : (entered[r] /\ Done(r)) => closed[r]

\* the first usable (nonzero) rate of the synthesizer's property and the
\* audio configuration's field, 22050 when neither is usable
FirstUsableRate(m) ==
    IF m.has_osr /\ m.osr # 0 THEN m.osr
    ELSE IF m.has_cfg /\ m.cfg # 0 THEN m.cfg
    ELSE 22050

\* C9 as stated: the WAV is written at the first available of the
\* synthesizer's output_sample_rate, the configuration's sample_rate and 22050;
\* the configuration's rate is used whenever the synthesizer yields no usable
\* rate and the configuration has one.
C9_FirstUsableRate ==
    \A r \in Requests :
        (IsTts(r) /\ Done(r) /\ status[r] = 200)
            => wav_rate[r] = FirstUsableRate(tts_meta)

\* C9 amended: the configuration's rate is read only when the synthesizer has
\* no output_sample_rate property at all; the rate so selected is used unless
\* it is 0 or nothing was selected, and then 22050 is used.
C9_RateByPresence ==
    \A r \in Requests :
        (IsTts(r) /\ Done(r) /\ status[r] = 200)
            => /\ (tts_meta.has_osr /\ tts_meta.osr # 0)
                     => wav_rate[r] = tts_meta.osr
               /\ (tts_meta.has_osr /\ tts_meta.osr = 0)
                     => wav_rate[r] = 22050
               /\ (~tts_meta.has_osr /\ tts_meta.has_cfg /\ tts_meta.cfg # 0)
                     => wav_rate[r] = tts_meta.cfg
               /\ (~tts_meta.has_osr /\ (~tts_meta.has_cfg \/ tts_meta.cfg = 0))
                     => wav_rate[r] = 22050

C9_Witness ==
    \E r \in Requests :
        /\ IsTts(r) /\ Done(r) /\ status[r] = 200
        /\ tts_meta.has_osr /\ tts_meta.osr = 0
        /\ tts_meta.has_cfg /\ tts_meta.cfg = 44100
        /\ wav_rate[r] = 22050

====
